---- MODULE Spec2Model ----
(***************************************************************************)
(* Model of the splat-to-mesh conversion service (app.py, converter.py,    *)
(* gcs_handler.py): the /convert request handler with its workspace, the   *)
(* converter with its pipeline descriptor file, the publisher and the      *)
(* object store, and the /health endpoint.                                 *)
(*                                                                         *)
(* Text (f-strings, exception messages, URLs, object keys) is modelled as  *)
(* sequences of tokens; concatenation is \o.                               *)
(***************************************************************************)
EXTENDS Integers, Sequences, FiniteSets, TLC

\* ---------------------------------------------------------------- bounds
MaxReqs == 2          \* number of /convert requests
MaxClock == 2         \* last clock tick
TicksPerSecond == 2   \* clock ticks per wall-clock second (datetime.now() is finer than %S)
NumDirNames == 2      \* names mkdtemp can draw from
NumDescNames == 2     \* names NamedTemporaryFile can draw from
MaxHealth == 1        \* number of /health calls

Reqs == 1..MaxReqs
DirNames == 1..NumDirNames
DescNames == 1..NumDescNames
None == 0

\* ----------------------------------------------------- program constants
GCS_BUCKET == "doodle-world-static"

\* -------------------------------------------------- environment's inputs
Statuses == {200, 404, 500}          \* HTTP status of the fetched URL
ExitCodes == {0, 1}                  \* exit status of the pdal subprocess
StderrTexts == {"pdal: bad ply"}     \* what the tool wrote on stderr

\* ------------------------------------------------------------ exceptions
Exc(type, str, stderr) == [type |-> type, str |-> str, stderr |-> stderr]

\* subprocess.CalledProcessError: str() names the command and the exit
\* status; the captured text is only in the .stderr attribute
CalledProcessError(rc, stderr) ==
    Exc("CalledProcessError",
        <<"Command 'pdal pipeline' returned non-zero exit status ", ToString(rc), ".">>,
        stderr)

\* raise Exception(f"<prefix>{e}"): a plain Exception whose text is the
\* prefix followed by str(e); it has no stderr attribute
Wrap(prefix, e) == Exc("Exception", <<prefix>> \o e.str, "")

IsInfix(sub, seq) ==
    \E i \in 0..(Len(seq) - Len(sub)) :
        \A j \in 1..Len(sub) : seq[i + j] = sub[j]

\* ------------------------------------------------------------- responses
NoResponse ==
    [kind |-> "none", status |-> 0, glb_url |-> <<>>, message |-> "", detail |-> <<>>]

ConversionResponse(glb_url, message) ==
    [kind |-> "ConversionResponse", status |-> 200, glb_url |-> glb_url,
     message |-> message, detail |-> <<>>]

HTTPException(status_code, detail) ==
    [kind |-> "HTTPException", status |-> status_code, glb_url |-> <<>>,
     message |-> "", detail |-> detail]

\* an exception that leaves the handler uncaught: the server answers with a
\* bare 500 "Internal Server Error" that carries no detail
Unhandled ==
    [kind |-> "unhandled", status |-> 500, glb_url |-> <<>>,
     message |-> "Internal Server Error", detail |-> <<>>]

\* the two except clauses of the handler
handle_exception(e) ==
    IF e.type = "CalledProcessError"
    THEN HTTPException(500, <<"Conversion failed: ", e.stderr>>)
    ELSE HTTPException(500, <<"An error occurred: ">> \o e.str)

\* ------------------------------------------------------------ filesystem
NoDir == [exists |-> FALSE, owner |-> None, files |-> {}]
NewDir(r) == [exists |-> TRUE, owner |-> r, files |-> {}]

\* mutant: a fixed-pool allocator that does not look at what exists
mkdtemp_noexcl(dirs) == DirNames

\* names tempfile.mkdtemp may return: any name that does not exist now
mkdtemp(dirs) == {d \in DirNames : ~dirs[d].exists}

\* names tempfile.NamedTemporaryFile may create: any name that does not exist now
NamedTemporaryFile(files) == {n \in DescNames : files[n] = None}

\* mutant: the files are removed but the directory itself is left behind
rmtree_filesonly(dirs, d) == [dirs EXCEPT ![d].files = {}]

\* shutil.rmtree
rmtree(dirs, d) == [dirs EXCEPT ![d] = NoDir]

\* mutant: only server errors raise
raise_for_status_5xx(status) == status >= 500 /\ status < 600

\* response.raise_for_status(): raises for 4xx and 5xx
raise_for_status(status) == status >= 400 /\ status < 600

\* ------------------------------------------------------------- publisher
\* datetime.now().strftime('%Y%m%d_%H%M%S'): the time truncated to the second
strftime(t) == ToString(t \div TicksPerSecond)

\* filename = f"converted_{...}.glb"; blob_name = f"conversions/{filename}"
make_blob_name(t) == <<"conversions/">> \o <<"converted_", strftime(t), ".glb">>

\* mutant: the URL names the file without its conversions/ prefix
get_public_url_noprefix(bucket_name, blob) ==
    <<"https://storage.googleapis.com/", bucket_name, "/">> \o Tail(blob)

get_public_url(bucket_name, blob) ==
    <<"https://storage.googleapis.com/", bucket_name, "/">> \o blob

VARIABLES
    pc,             \* position of each request in the handler
    temp_dir,       \* the handler's temp_dir (None until mkdtemp returned)
    fs,             \* temporary directories: name -> [exists, owner, files]
    tmpfiles,       \* descriptor files: name -> creating request, or None
    pipeline_file,  \* the converter's local pipeline_file (None: not in locals())
    desc,           \* the descriptor file the converter of a request created
    store,          \* the bucket: blob name -> [owner, public]
    now,            \* the latest reading of the wall clock, in ticks
    blob_name,      \* the handler's blob_name (<<>> until computed)
    outcome,        \* what the try/except part of the handler produced
    resp,           \* the response of a request that has returned
    calls,          \* per request, how often each collaborator was invoked
    obs,            \* per request, what the environment did to it
    health,         \* the last /health response
    healthCalls     \* number of /health calls so far

vars == <<pc, temp_dir, fs, tmpfiles, pipeline_file, desc, store, now,
          blob_name, outcome, resp, calls, obs, health, healthCalls>>

reqVars == <<pc, temp_dir, pipeline_file, desc, blob_name, outcome, resp, calls, obs>>

NoCalls == [fetch |-> 0, convert |-> 0, tool |-> 0, upload |-> 0, store |-> 0, rmtree |-> 0]

NoObs ==
    [failpoint |-> "none", httpStatus |-> 0, exit |-> -1, stderr |-> "",
     cause |-> <<>>, cleanupFailed |-> FALSE, uploadBucket |-> "", uploadKey |-> <<>>,
     overwrote |-> None, uploaded |-> FALSE, madePublic |-> FALSE]

Init ==
    /\ pc = [r \in Reqs |-> "start"]
    /\ temp_dir = [r \in Reqs |-> None]
    /\ fs = [d \in DirNames |-> NoDir]
    /\ tmpfiles = [n \in DescNames |-> None]
    /\ pipeline_file = [r \in Reqs |-> None]
    /\ desc = [r \in Reqs |-> None]
    /\ store = << >>
    /\ now = 0
    /\ blob_name = [r \in Reqs |-> <<>>]
    /\ outcome = [r \in Reqs |-> NoResponse]
    /\ resp = [r \in Reqs |-> NoResponse]
    /\ calls = [r \in Reqs |-> NoCalls]
    /\ obs = [r \in Reqs |-> NoObs]
    /\ health = NoResponse
    /\ healthCalls = 0

\* mutant: a failed fetch is tried again
Fail_retry(r, e, c, fp, o) ==
    /\ outcome' = [outcome EXCEPT ![r] = handle_exception(e)]
    /\ pc' = [pc EXCEPT ![r] = IF fp = "fetch" THEN "download" ELSE "finally"]
    /\ obs' = [obs EXCEPT ![r] = [o EXCEPT !.failpoint = fp, !.cause = c.str]]

\* mutant: a conversion error is logged and the handler goes on to the upload
Fail_swallow_conversion(r, e, c, fp, o) ==
    /\ outcome' = IF fp = "conversion" THEN outcome
                  ELSE [outcome EXCEPT ![r] = handle_exception(e)]
    /\ pc' = [pc EXCEPT ![r] = IF fp = "conversion" THEN "upload" ELSE "finally"]
    /\ obs' = [obs EXCEPT ![r] = [o EXCEPT !.failpoint = fp, !.cause = c.str]]

\* mutant: make_public is treated as optional, its failure is ignored
Fail_ignore_make_public(r, e, c, fp, o) ==
    /\ outcome' = IF fp = "make_public" THEN outcome
                  ELSE [outcome EXCEPT ![r] = handle_exception(e)]
    /\ pc' = [pc EXCEPT ![r] = IF fp = "make_public" THEN "respond" ELSE "finally"]
    /\ obs' = [obs EXCEPT ![r] = [o EXCEPT !.failpoint = fp, !.cause = c.str]]

\* the handler's except clauses (app.py 84-95), reached from the step that
\* raised e; c is the original cause, fp the failing stage, o the request's
\* observations so far
Fail(r, e, c, fp, o) ==
    /\ outcome' = [outcome EXCEPT ![r] = handle_exception(e)]
    /\ pc' = [pc EXCEPT ![r] = "finally"]
    /\ obs' = [obs EXCEPT ![r] = [o EXCEPT !.failpoint = fp, !.cause = c.str]]

\* ------------------------------------------------------------ /convert
\* Entry of the handler and temp_dir = tempfile.mkdtemp().  Requests are
\* numbered in the order in which their handlers start.
Mkdtemp(r) ==
    /\ pc[r] = "start"
    /\ \A q \in Reqs : q < r => pc[q] # "start"
    /\ UNCHANGED <<tmpfiles, pipeline_file, desc, store, now, blob_name, resp,
                   calls, health, healthCalls>>
    /\ \/ \E d \in mkdtemp(fs) :
            /\ fs' = [fs EXCEPT ![d] = NewDir(r)]
            /\ temp_dir' = [temp_dir EXCEPT ![r] = d]
            /\ pc' = [pc EXCEPT ![r] = "download"]
            /\ UNCHANGED <<outcome, obs>>
       \/ LET e == Exc("OSError", <<"No usable temporary directory name found">>, "") IN
            /\ Fail(r, e, e, "workspace", obs[r])
            /\ UNCHANGED <<fs, temp_dir>>

\* download_file(url, ply_path)
Download(r) ==
    /\ pc[r] = "download"
    /\ calls' = [calls EXCEPT ![r].fetch = @ + 1]
    /\ UNCHANGED <<temp_dir, tmpfiles, pipeline_file, desc, store, now, blob_name,
                   resp, health, healthCalls>>
    /\ \/ LET e == Exc("ConnectionError", <<"Failed to establish a new connection">>, "") IN
            /\ Fail(r, e, e, "fetch", obs[r])
            /\ UNCHANGED fs
       \/ \E s \in Statuses :
            LET o == [obs[r] EXCEPT !.httpStatus = s]
                withInput == [fs EXCEPT ![temp_dir[r]].files = @ \cup {"input.ply"}]
            IN
            IF raise_for_status(s)
            THEN LET e == Exc("HTTPError", <<ToString(s), " Error for url">>, "") IN
                    /\ Fail(r, e, e, "fetch", o)
                    /\ UNCHANGED fs
            ELSE \/ /\ fs' = withInput
                    /\ pc' = [pc EXCEPT ![r] = "conv_write"]
                    /\ obs' = [obs EXCEPT ![r] = o]
                    /\ UNCHANGED outcome
                 \/ \E partial \in BOOLEAN :
                    LET e == Exc("OSError", <<"No space left on device">>, "") IN
                    /\ fs' = IF partial THEN withInput ELSE fs
                    /\ Fail(r, e, e, "fetch", o)

\* the two except clauses of convert_ply_to_glb raise the same thing
converter_except(e) == Wrap("PDAL conversion failed: ", e)

\* the finally clause of convert_ply_to_glb: pf is the local pipeline_file,
\* None when it is not in locals()
converter_finally(files, pf) ==
    IF pf # None /\ files[pf] # None THEN [files EXCEPT ![pf] = None] ELSE files

\* convert_ply_to_glb, first part: the with block that writes the descriptor
ConvWrite(r) ==
    /\ pc[r] = "conv_write"
    /\ calls' = [calls EXCEPT ![r].convert = @ + 1]
    /\ UNCHANGED <<temp_dir, fs, store, now, blob_name, resp, health, healthCalls>>
    /\ \/ \* NamedTemporaryFile raises: nothing was created
          LET e == Exc("OSError", <<"No usable temporary file name found">>, "") IN
            /\ tmpfiles' = converter_finally(tmpfiles, None)
            /\ Fail(r, converter_except(e), e, "conversion", obs[r])
            /\ UNCHANGED <<pipeline_file, desc>>
       \/ \E n \in NamedTemporaryFile(tmpfiles) :
            LET created == [tmpfiles EXCEPT ![n] = r] IN
            /\ desc' = [desc EXCEPT ![r] = n]
            /\ \/ \* json.dump and close succeed
                  /\ pipeline_file' = [pipeline_file EXCEPT ![r] = n]
                  /\ tmpfiles' = created
                  /\ pc' = [pc EXCEPT ![r] = "conv_run"]
                  /\ UNCHANGED <<outcome, obs>>
               \/ \* json.dump raises: pipeline_file = f.name is never executed
                  LET e == Exc("TypeError", <<"Object is not JSON serializable">>, "") IN
                  /\ pipeline_file' = pipeline_file
                  /\ tmpfiles' = converter_finally(created, pipeline_file[r])
                  /\ Fail(r, converter_except(e), e, "conversion", obs[r])
               \/ \* closing the file at the end of the with block raises
                  LET e == Exc("OSError", <<"No space left on device">>, "") IN
                  /\ pipeline_file' = [pipeline_file EXCEPT ![r] = n]
                  /\ tmpfiles' = converter_finally(created, n)
                  /\ Fail(r, converter_except(e), e, "conversion", obs[r])

\* convert_ply_to_glb, second part: subprocess.run(..., check=True), the
\* except clauses and the finally clause
ConvRun(r) ==
    /\ pc[r] = "conv_run"
    /\ calls' = [calls EXCEPT ![r].tool = @ + 1]
    /\ tmpfiles' = converter_finally(tmpfiles, pipeline_file[r])
    /\ UNCHANGED <<temp_dir, pipeline_file, desc, store, now, blob_name, resp,
                   health, healthCalls>>
    /\ \/ \* the pdal executable is not found
          LET e == Exc("FileNotFoundError", <<"No such file or directory: 'pdal'">>, "") IN
            /\ Fail(r, converter_except(e), e, "conversion", obs[r])
            /\ UNCHANGED fs
       \/ \E rc \in ExitCodes, wrote \in BOOLEAN, s \in StderrTexts :
            /\ fs' = IF wrote
                     THEN [fs EXCEPT ![temp_dir[r]].files = @ \cup {"output.glb"}]
                     ELSE fs
            /\ IF rc # 0
               THEN LET e == CalledProcessError(rc, s) IN
                    Fail(r, converter_except(e), e, "conversion",
                         [obs[r] EXCEPT !.exit = rc, !.stderr = s])
               ELSE /\ pc' = [pc EXCEPT ![r] = "upload"]
                    /\ obs' = [obs EXCEPT ![r].exit = rc]
                    /\ UNCHANGED outcome

\* the except clause of upload_to_gcs
upload_except(e) == Wrap("GCS upload failed: ", e)

\* blob.upload_from_filename: the object under the key is replaced, and the
\* new object is not public
upload_from_filename(objects, key, r) ==
    (key :> [owner |-> r, public |-> FALSE]) @@ objects

\* blob.make_public
make_public(objects, key) == [objects EXCEPT ![key].public = TRUE]

\* datetime.now(): any time not before the previous reading of the clock
datetime_now(last) == last..MaxClock

\* app.py 69-73: the key is generated, then upload_to_gcs runs up to and
\* including blob.upload_from_filename
Upload(r) ==
    \E t \in datetime_now(now) :
    LET key == make_blob_name(t)
        o == [obs[r] EXCEPT !.uploadBucket = GCS_BUCKET, !.uploadKey = key]
    IN
    /\ pc[r] = "upload"
    /\ now' = t
    /\ blob_name' = [blob_name EXCEPT ![r] = key]
    /\ UNCHANGED <<temp_dir, fs, tmpfiles, pipeline_file, desc, resp,
                   health, healthCalls>>
    /\ \/ \* storage.Client() raises: no credentials
          LET e == Exc("DefaultCredentialsError", <<"Could not determine credentials">>, "") IN
            /\ calls' = [calls EXCEPT ![r].upload = @ + 1]
            /\ Fail(r, upload_except(e), e, "upload", o)
            /\ UNCHANGED store
       \/ /\ calls' = [calls EXCEPT ![r].upload = @ + 1, ![r].store = @ + 1]
          /\ IF "output.glb" \notin fs[temp_dir[r]].files
             THEN LET e == Exc("FileNotFoundError", <<"No such file or directory: output.glb">>, "") IN
                    /\ Fail(r, upload_except(e), e, "upload", o)
                    /\ UNCHANGED store
             ELSE \/ /\ store' = upload_from_filename(store, key, r)
                     /\ pc' = [pc EXCEPT ![r] = "make_public"]
                     /\ obs' = [obs EXCEPT ![r] =
                                  [o EXCEPT !.uploaded = TRUE, !.overwrote =
                                      IF key \in DOMAIN store THEN store[key].owner ELSE None]]
                     /\ UNCHANGED outcome
                  \/ LET e == Exc("GoogleCloudError", <<"transfer failed">>, "") IN
                     /\ Fail(r, upload_except(e), e, "upload", o)
                     /\ UNCHANGED store

\* mutant: the failure is raised after the ACL change has taken effect
MakePublic_late_fail(r) ==
    /\ pc[r] = "make_public"
    /\ calls' = [calls EXCEPT ![r].store = @ + 1]
    /\ UNCHANGED <<temp_dir, fs, tmpfiles, pipeline_file, desc, now, blob_name,
                   resp, health, healthCalls>>
    /\ store' = make_public(store, blob_name[r])
    /\ \/ /\ pc' = [pc EXCEPT ![r] = "respond"]
          /\ obs' = [obs EXCEPT ![r].madePublic = TRUE]
          /\ UNCHANGED outcome
       \/ LET e == Exc("Forbidden", <<"403 cannot set ACL">>, "") IN
          Fail(r, upload_except(e), e, "make_public", [obs[r] EXCEPT !.madePublic = TRUE])

\* upload_to_gcs, second part: blob.make_public()
MakePublic(r) ==
    /\ pc[r] = "make_public"
    /\ calls' = [calls EXCEPT ![r].store = @ + 1]
    /\ UNCHANGED <<temp_dir, fs, tmpfiles, pipeline_file, desc, now, blob_name,
                   resp, health, healthCalls>>
    /\ \/ /\ store' = make_public(store, blob_name[r])
          /\ pc' = [pc EXCEPT ![r] = "respond"]
          /\ obs' = [obs EXCEPT ![r].madePublic = TRUE]
          /\ UNCHANGED outcome
       \/ LET e == Exc("Forbidden", <<"403 cannot set ACL">>, "") IN
          /\ Fail(r, upload_except(e), e, "make_public", obs[r])
          /\ UNCHANGED store

\* app.py 76-82: the URL is computed and the response is built
Respond(r) ==
    /\ pc[r] = "respond"
    /\ outcome' = [outcome EXCEPT ![r] =
                     ConversionResponse(get_public_url(GCS_BUCKET, blob_name[r]),
                                        "Conversion successful")]
    /\ pc' = [pc EXCEPT ![r] = "finally"]
    /\ UNCHANGED <<temp_dir, fs, tmpfiles, pipeline_file, desc, store, now,
                   blob_name, resp, calls, obs, health, healthCalls>>

\* the handler's finally clause (app.py 96-101), after which the handler is left
Finally(r) ==
    /\ pc[r] = "finally"
    /\ pc' = [pc EXCEPT ![r] = "returned"]
    /\ UNCHANGED <<temp_dir, tmpfiles, pipeline_file, desc, store, now, blob_name,
                   outcome, health, healthCalls>>
    /\ IF temp_dir[r] # None /\ fs[temp_dir[r]].exists
       THEN /\ calls' = [calls EXCEPT ![r].rmtree = @ + 1]
            /\ \/ /\ fs' = rmtree(fs, temp_dir[r])
                  /\ resp' = [resp EXCEPT ![r] = outcome[r]]
                  /\ UNCHANGED obs
               \/ \* shutil.rmtree raises: the exception replaces the
                  \* return value or the HTTPException
                  /\ fs' = fs
                  /\ resp' = [resp EXCEPT ![r] = Unhandled]
                  /\ obs' = [obs EXCEPT ![r].cleanupFailed = TRUE]
       ELSE /\ resp' = [resp EXCEPT ![r] = outcome[r]]
            /\ UNCHANGED <<fs, calls, obs>>

\* ------------------------------------------------------------- /health
health_check == [NoResponse EXCEPT !.kind = "dict", !.status = 200, !.message = "healthy"]

\* mutant: a health check that probes the store by writing an object
Health_probe ==
    /\ healthCalls < MaxHealth
    /\ healthCalls' = healthCalls + 1
    /\ health' = health_check
    /\ store' = (<<"health/", "probe">> :> [owner |-> None, public |-> FALSE]) @@ store
    /\ UNCHANGED <<fs, tmpfiles, now, reqVars>>

Health ==
    /\ healthCalls < MaxHealth
    /\ healthCalls' = healthCalls + 1
    /\ health' = health_check
    /\ UNCHANGED <<fs, tmpfiles, store, now, reqVars>>

Next ==
    \/ \E r \in Reqs : Mkdtemp(r)
    \/ \E r \in Reqs : Download(r)
    \/ \E r \in Reqs : ConvWrite(r)
    \/ \E r \in Reqs : ConvRun(r)
    \/ \E r \in Reqs : Upload(r)
    \/ \E r \in Reqs : MakePublic(r)
    \/ \E r \in Reqs : Respond(r)
    \/ \E r \in Reqs : Finally(r)
    \/ Health

Spec == Init /\ [][Next]_vars

\* every step of a handler that has something to do is eventually taken:
\* each blocking call returns or raises, and the handler never waits for
\* another request
ReqStep(r) ==
    \/ Mkdtemp(r) \/ Download(r) \/ ConvWrite(r) \/ ConvRun(r)
    \/ Upload(r) \/ MakePublic(r) \/ Respond(r) \/ Finally(r)

LiveSpec == Spec /\ \A r \in Reqs : WF_vars(ReqStep(r))

\* =============================================================== claims
Returned(r) == pc[r] = "returned"
InFlight(r) == pc[r] \notin {"start", "returned"}
OwnsDir(r) == \E d \in DirNames : fs[d].exists /\ fs[d].owner = r
Range(seq) == {seq[i] : i \in DOMAIN seq}
ConverterLeft(r) == pc[r] \in {"upload", "make_public", "respond", "finally", "returned"}

C2_StderrInDetail ==
    \A r \in Reqs :
        Returned(r) /\ ~obs[r].cleanupFailed /\ obs[r].exit > 0 =>
            /\ resp[r].status = 500
            /\ obs[r].stderr \in Range(resp[r].detail)

\* C3 (as claimed): once convert_ply_to_glb has returned or raised, the
\* descriptor file it created does not exist.
C3_DescriptorAbsent ==
    \A r \in Reqs :
        ConverterLeft(r) /\ desc[r] # None => tmpfiles[desc[r]] # r

\* C4 (as claimed): no two requests that reached the upload step use the
\* same object key.
C4_UniqueKey ==
    \A r1, r2 \in Reqs :
        r1 # r2 /\ blob_name[r1] # <<>> /\ blob_name[r2] # <<>> =>
            blob_name[r1] # blob_name[r2]

\* C5: a request whose fetch got a non-success HTTP status never invokes the
\* converter or the publisher, and ends with a 500.
C5_HttpErrorStops ==
    \A r \in Reqs :
        obs[r].httpStatus >= 400 =>
            /\ calls[r].convert = 0 /\ calls[r].tool = 0
            /\ calls[r].upload = 0 /\ calls[r].store = 0
            /\ pc[r] \in {"finally", "returned"}
            /\ Returned(r) => resp[r].status = 500

C5_Witness ==
    \E r \in Reqs :
        /\ Returned(r) /\ obs[r].httpStatus = 404 /\ calls[r].fetch = 1
        /\ resp[r].status = 500 /\ calls[r].convert = 0 /\ calls[r].upload = 0

HasWorkspace(r) == InFlight(r) /\ temp_dir[r] # None

\* C6 (as claimed): the workspace paths of any two requests, concurrent or
\* sequential, are distinct.
C6_PathsNeverReused ==
    \A r1, r2 \in Reqs :
        r1 # r2 /\ temp_dir[r1] # None /\ temp_dir[r2] # None =>
            temp_dir[r1] # temp_dir[r2]

\* C6 (amended): two requests that hold a workspace at the same time hold
\* distinct, existing directories of their own, and no step of another
\* request (its cleanup included) changes the workspace of a request that
\* is in flight.
C6_NoSharingInFlight ==
    /\ [](\A r1, r2 \in Reqs :
            HasWorkspace(r1) /\ HasWorkspace(r2) /\ r1 # r2 =>
                /\ temp_dir[r1] # temp_dir[r2]
                /\ fs[temp_dir[r1]].exists /\ fs[temp_dir[r1]].owner = r1)
    /\ [][\A r \in Reqs :
            HasWorkspace(r) /\ pc'[r] = pc[r] =>
                fs'[temp_dir[r]] = fs[temp_dir[r]]]_vars

C6_Witness ==
    \E q, r \in Reqs :
        /\ q # r
        /\ Returned(q) /\ calls[q].rmtree = 1 /\ ~obs[q].cleanupFailed
        /\ pc[r] = "upload" /\ fs[temp_dir[r]].owner = r
        /\ fs[temp_dir[r]].files = {"input.ply", "output.glb"}

\* C7 (as claimed): a request that has returned has a 200 response with
\* glb_url and the message "Conversion successful", or a 500 response whose
\* detail includes the stringified cause.
C7_ResponseShape ==
    \A r \in Reqs :
        Returned(r) =>
            \/ /\ resp[r].status = 200
               /\ resp[r].kind = "ConversionResponse"
               /\ resp[r].glb_url # <<>>
               /\ resp[r].message = "Conversion successful"
            \/ /\ resp[r].status = 500
               /\ resp[r].kind = "HTTPException"
               /\ obs[r].cause # <<>>
               /\ IsInfix(obs[r].cause, resp[r].detail)

\* C8 (as claimed): convert_ply_to_glb returns normally only if the tool
\* exited with status zero and the output file exists.
C8_SuccessMeansOutput ==
    \A r \in Reqs :
        pc[r] = "upload" =>
            /\ obs[r].exit = 0
            /\ "output.glb" \in fs[temp_dir[r]].files

\* C9: in a 200 response glb_url is the fixed template applied to the bucket
\* and key that were passed to this request's upload, the key is
\* conversions/converted_<timestamp>.glb, and the store was called exactly
\* twice by the request (upload, make_public): computing the URL called nothing.
C9_UrlFromUploadArgs ==
    \A r \in Reqs :
        resp[r].status = 200 =>
            /\ resp[r].glb_url =
                 <<"https://storage.googleapis.com/", obs[r].uploadBucket, "/">>
                    \o obs[r].uploadKey
            /\ obs[r].uploadBucket = "doodle-world-static"
            /\ Len(obs[r].uploadKey) = 4
            /\ obs[r].uploadKey[1] = "conversions/"
            /\ obs[r].uploadKey[2] = "converted_"
            /\ obs[r].uploadKey[3] \in {ToString(sec) : sec \in 0..MaxClock}
            /\ obs[r].uploadKey[4] = ".glb"
            /\ obs[r].uploadKey \in DOMAIN store
            /\ calls[r].store = 2

C9_Witness ==
    \E r \in Reqs :
        /\ Returned(r) /\ resp[r].status = 200
        /\ resp[r].glb_url = <<"https://storage.googleapis.com/", "doodle-world-static",
                               "/", "conversions/", "converted_", "1", ".glb">>

\* C10: a /health call answers 200 {"status": "healthy"} and changes nothing
\* else: not the filesystem, not the store, not any request, and no
\* collaborator is invoked.
C10_HealthNoSideEffects ==
    [][healthCalls' # healthCalls =>
          /\ health'.status = 200 /\ health'.message = "healthy"
          /\ UNCHANGED <<fs, tmpfiles, store, now, pc, temp_dir, pipeline_file,
                         desc, blob_name, outcome, resp, calls, obs>>]_vars

C10_Witness ==
    /\ healthCalls > 0 /\ health.status = 200 /\ health.message = "healthy"
    /\ \E r \in Reqs : pc[r] = "make_public"
    /\ \E r \in Reqs : pc[r] = "conv_run"

\* the state of §4.4's request state machine that the try/except part of
\* the handler is in, from its position p and what it has produced so far
HState(p, out) ==
    CASE p \in {"start", "download"} -> "start"
      [] p \in {"conv_write", "conv_run"} -> "fetched"
      [] p \in {"upload", "make_public"} -> "converted"
      [] p = "respond" -> "uploaded"
      [] OTHER -> IF out.status = 200 THEN "done" ELSE "failed"

Allowed ==
    {<<"start", "fetched">>, <<"fetched", "converted">>,
     <<"converted", "uploaded">>, <<"uploaded", "done">>}
    \cup {<<s, "failed">> : s \in {"start", "fetched", "converted", "uploaded"}}

\* C11: a request moves only along start -> fetched -> converted -> uploaded
\* -> done, or from a non-terminal state to failed; done and failed are never
\* left; the converter has been invoked only after a successful fetch, the
\* publisher only after a successful conversion, and a 200 is produced only
\* after a successful upload.
C11_StateMachine ==
    /\ [][\A r \in Reqs :
            HState(pc'[r], outcome'[r]) # HState(pc[r], outcome[r]) =>
                <<HState(pc[r], outcome[r]), HState(pc'[r], outcome'[r])>> \in Allowed]_vars
    /\ [](\A r \in Reqs :
            /\ calls[r].convert > 0 =>
                 /\ calls[r].fetch = 1 /\ obs[r].httpStatus \in 200..299
                 /\ obs[r].failpoint \notin {"workspace", "fetch"}
            /\ calls[r].upload > 0 =>
                 /\ calls[r].tool = 1 /\ obs[r].exit = 0
                 /\ obs[r].failpoint \notin {"workspace", "fetch", "conversion"}
            /\ outcome[r].status = 200 =>
                 /\ obs[r].uploaded /\ obs[r].failpoint = "none"
                 /\ HState(pc[r], outcome[r]) = "done")

C11_Witness ==
    /\ \E r \in Reqs : pc[r] = "finally" /\ HState(pc[r], outcome[r]) = "done"
    /\ \E r \in Reqs : Returned(r) /\ HState(pc[r], outcome[r]) = "failed"
                          /\ obs[r].failpoint = "upload"

Failed(r) == pc[r] \in {"finally", "returned"} /\ outcome[r].kind = "HTTPException"

\* C12: within one request the fetch, the converter, the external tool and
\* the upload are each attempted at most once, and once any step has failed
\* the request is in failed with a 500 and attempts nothing more.
C12_NoRetry ==
    \A r \in Reqs :
        /\ calls[r].fetch <= 1 /\ calls[r].convert <= 1
        /\ calls[r].tool <= 1 /\ calls[r].upload <= 1 /\ calls[r].store <= 2
        /\ obs[r].failpoint # "none" =>
             /\ Failed(r) /\ outcome[r].status = 500
             /\ obs[r].failpoint = "fetch" => calls[r].convert = 0 /\ calls[r].upload = 0
             /\ obs[r].failpoint = "conversion" => calls[r].fetch = 1 /\ calls[r].upload = 0
             /\ obs[r].failpoint = "upload" => calls[r].store <= 1

C12_Witness ==
    /\ \E r \in Reqs : Returned(r) /\ obs[r].failpoint = "fetch" /\ calls[r].fetch = 1
    /\ \E r \in Reqs : Returned(r) /\ obs[r].failpoint = "conversion"
                          /\ calls[r].tool = 1 /\ obs[r].exit = 1

\* C13: a 200 is produced only by a request whose upload succeeded and whose
\* make_public succeeded after it; a request whose upload succeeded and whose
\* make_public failed is failed and answers 500.
C13_PublicBeforeOk ==
    \A r \in Reqs :
        /\ obs[r].madePublic => obs[r].uploaded /\ calls[r].store = 2
        /\ outcome[r].status = 200 \/ resp[r].status = 200 =>
              obs[r].uploaded /\ obs[r].madePublic
        /\ obs[r].failpoint = "make_public" =>
              /\ obs[r].uploaded /\ ~obs[r].madePublic /\ Failed(r)
              /\ Returned(r) => resp[r].status = 500

C13_Witness ==
    /\ \E r \in Reqs : /\ Returned(r) /\ obs[r].failpoint = "make_public"
                       /\ obs[r].uploaded /\ resp[r].status = 500
    /\ \E r \in Reqs : Returned(r) /\ resp[r].status = 200 /\ obs[r].madePublic

OwnedObjects(r) == {k \in DOMAIN store : store[k].owner = r}

\* C17: a failed request has made no object public; it owns an object in the
\* store only if its upload succeeded and its make_public call then failed,
\* and that object is the one under its own key.
C17_FailedLeavesNothingPublic ==
    \A r \in Reqs :
        Failed(r) =>
            /\ ~obs[r].madePublic
            /\ obs[r].uploaded => obs[r].failpoint = "make_public"
            /\ OwnedObjects(r) \subseteq (IF obs[r].uploaded THEN {blob_name[r]} ELSE {})

C17_Witness ==
    \E r \in Reqs :
        /\ Returned(r) /\ Failed(r) /\ obs[r].failpoint = "make_public"
        /\ OwnedObjects(r) = {blob_name[r]} /\ ~store[blob_name[r]].public

\* C14 (as claimed): with every step of a handler eventually taken, every
\* request eventually has returned (in done or failed) with the directory it
\* created deleted.
C14_ReturnsAndDeletes ==
    \A r \in Reqs : <>(Returned(r) /\ ~OwnsDir(r))

\* C15 (as claimed): a workspace holds at most the input and the output
\* file, and a descriptor file exists only while the converter invocation
\* that created it is running.
C15_FilesInPlace ==
    /\ \A d \in DirNames :
          fs[d].files \subseteq {"input.ply", "output.glb"} /\ Cardinality(fs[d].files) <= 2
    /\ \A n \in DescNames :
          tmpfiles[n] # None => pc[tmpfiles[n]] \in {"conv_write", "conv_run"}

\* C16 (as claimed): while the converter runs, the request's workspace
\* exists and holds the input file; while the upload runs, it exists and
\* holds the output file.
C16_FilesOutliveReaders ==
    \A r \in Reqs :
        /\ pc[r] \in {"conv_write", "conv_run"} =>
              /\ fs[temp_dir[r]].exists /\ fs[temp_dir[r]].owner = r
              /\ "input.ply" \in fs[temp_dir[r]].files
        /\ pc[r] = "upload" =>
              /\ fs[temp_dir[r]].exists /\ fs[temp_dir[r]].owner = r
              /\ "output.glb" \in fs[temp_dir[r]].files

====
